---- MODULE Spec2Model ----
(***************************************************************************)
(* Presence registry and event handlers of the Socket.io chat server       *)
(* (socket.on "newUser", "disconnect", "chat:message", "leave-call") and   *)
(* the backend client they call (apiClient.post -> apiClient.request).     *)
(*                                                                         *)
(* One step of the model is one run of JavaScript between two suspension   *)
(* points: a handler runs from its event to its first `await` or to its    *)
(* end, and a suspended handler later resumes with the outcome of the      *)
(* backend call and runs to its next `await` or to its end.                *)
(***************************************************************************)
EXTENDS Bags, FiniteSets, Integers, Sequences, TLC

\* ------------------------------------------------------------------ bounds
\* Events (newUser, disconnect, leave-call, chat:message) handled in a run.
MaxEvents == 3

\* ------------------------------------------------------------------ inputs
\* "" stands for an empty or missing (falsy) field of a payload.
\* Socket ids in the order the server hands them out.
SocketIds == <<"c1", "c2", "c3">>
Sockets == {SocketIds[i] : i \in 1..Len(SocketIds)}
\* User ids and room ids are strings the clients choose; they are named here
\* in the order in which the server first sees them (see Offered).
UserNames == <<"A", "B">>
Users == {UserNames[i] : i \in 1..Len(UserNames)}
RoomNames == <<"R1", "R2">>
RoomIds == {RoomNames[i] : i \in 1..Len(RoomNames)}
\* Display attributes are copied, never inspected; one value of each is carried.
Names == {"n1"}
Photos == {"p1"}
\* Chat messages as character sequences: empty, blank, padded, inner blank.
Messages == {<<>>, <<" ", " ">>, <<" ", "h", " ">>, <<"h", " ", "h">>}
Timestamps == {"", "t1"}

VARIABLES
    onlineUsersByRoom,  \* roomId -> list of members (<<>> for an absent key too)
    roomOrder,          \* keys of onlineUsersByRoom in creation order (for..in order)
    joined,             \* roomId -> sockets in the Socket.io room (socket.join/leave)
    accepted,           \* number of connections accepted so far
    connected,          \* sockets whose connection is open
    pending,            \* bag of handlers suspended at `await apiClient.post(...)`
    calls,              \* <<roomId, userId>> -> number of add / remove calls issued
    lastBroadcast,      \* roomId -> <<>> or <<list>>: the last "usersOnline" payload
    events,             \* number of events handled so far
    named,              \* number of distinct userIds seen in valid joins
    failures,           \* some backend call has been rejected
    ev,                 \* what the step just taken did
    hist                \* history: the events so far were joins on fresh connections

vars == <<onlineUsersByRoom, roomOrder, joined, accepted, connected, pending, calls,
          lastBroadcast, events, named, failures, ev, hist>>

\* --------------------------------------------------- fetchClient.ts (client)
\* apiClient.request: fetch rejects on a network error; a non-2xx response
\* makes request throw; otherwise the parsed body is returned.
request(networkOk, responseOk) ==
    IF ~networkOk THEN "throw"
    ELSE IF ~responseOk THEN "throw"
    ELSE "return"

\* apiClient.post delegates to request("POST", ...).
post(networkOk, responseOk) == request(networkOk, responseOk)

\* ------------------------------------------------ array helpers of the code
\* A slip of the lookup: the predicate accepts any entry.
FindIndexAnyEntry(users, socketId) == IF Len(users) > 0 THEN 1 ELSE 0

\* users.findIndex(user => user.socketId === socket.id); 0 stands for -1.
FindIndex(users, socketId) ==
    IF \E i \in 1..Len(users) : users[i].socketId = socketId
    THEN CHOOSE i \in 1..Len(users) :
            /\ users[i].socketId = socketId
            /\ \A j \in 1..(i - 1) : users[j].socketId # socketId
    ELSE 0

\* users.find(u => u.socketId === socket.id): <<>> for undefined, else <<u>>.
\* A slip of the lookup: the first entry, whoever owns it.
FindAnyEntry(users, socketId) ==
    IF Len(users) = 0 THEN <<>> ELSE <<users[1]>>

Find(users, socketId) ==
    IF FindIndex(users, socketId) = 0 THEN <<>>
    ELSE <<users[FindIndex(users, socketId)]>>

\* users.some(user => user.userId === userId)
SomeUser(users, userId) == \E i \in 1..Len(users) : users[i].userId = userId

\* A slip of the filter: `===` for `!==`.
FilterOutInverted(users, socketId) ==
    SelectSeq(users, LAMBDA u : u.socketId = socketId)

\* users.filter(u => u.socketId !== socket.id)
FilterOut(users, socketId) == SelectSeq(users, LAMBDA u : u.socketId # socketId)

\* The object literal { socketId: socket.id, userId, name, photo }.
Member(socketId, userId, name, photo) ==
    [socketId |-> socketId, userId |-> userId, name |-> name, photo |-> photo]

\* A slip of case 1: the entry is pushed instead of overwritten.
Case1Appends(users, idx, m) == Append(users, m)

\* Case 1: users[existingUserIndex] = { socketId, userId, name, photo }.
Case1Update(users, idx, m) == [users EXCEPT ![idx] = m]

\* Case 2: users.push({ socketId, userId, name, photo }).
Case2Push(users, m) == Append(users, m)

\* A slip of case 3: the attributes are refreshed but the old socketId is kept.
Case3KeepsSocket(users, m) ==
    [i \in 1..Len(users) |->
        IF users[i].userId = m.userId
        THEN [m EXCEPT !.socketId = users[i].socketId]
        ELSE users[i]]

\* Case 3: users.map(user => user.userId === userId ? {...new} : user).
Case3Map(users, m) ==
    [i \in 1..Len(users) |-> IF users[i].userId = m.userId THEN m ELSE users[i]]

\* `if (!onlineUsersByRoom[roomId])`: the key exists once a join created it.
RoomExists(order, roomId) == \E i \in 1..Len(order) : order[i] = roomId

\* io.to(roomId).emit("usersOnline", list): delivered to the open connections
\* of the Socket.io room.
\* io.emit in place of io.to(roomId).emit: every open connection receives.
EmitToEveryone(roomId, list, grp, conn) ==
    [room |-> roomId, list |-> list, to |-> conn]

Emit(roomId, list, grp, conn) ==
    [room |-> roomId, list |-> list, to |-> grp[roomId] \cap conn]

\* --------------------------------------------------------------- step record
NoEv ==
    [kind |-> "init", sock |-> "", room |-> "", userId |-> "", name |-> "",
     photo |-> "", case |-> 0, emit |-> <<>>, call |-> <<>>, chat |-> <<>>,
     failed |-> FALSE, raised |-> FALSE, done |-> FALSE, removed |-> 0,
     mutated |-> {}, emitted |-> {}, blank |-> FALSE]

Call(op, roomId, userId, name) ==
    [op |-> op, room |-> roomId, userId |-> userId, name |-> name]

\* --------------------------------------------------------------- history
Broken == [fresh |-> FALSE, log |-> <<>>, disc |-> ""]

HistJoin(s, userId, roomId) ==
    IF /\ hist.fresh
       /\ hist.disc = ""
       /\ userId # ""
       /\ roomId # ""
       /\ \A i \in 1..Len(hist.log) : hist.log[i].sock # s
    THEN [hist EXCEPT !.log = Append(@, [sock |-> s, userId |-> userId, room |-> roomId])]
    ELSE Broken

HistDisconnect(s) ==
    IF /\ hist.fresh
       /\ hist.disc = ""
       /\ \E i \in 1..Len(hist.log) : hist.log[i].sock = s
    THEN [hist EXCEPT !.disc = s]
    ELSE Broken

\* ------------------------------------------------------------------- Init
Init ==
    /\ onlineUsersByRoom = [r \in RoomIds |-> <<>>]
    /\ roomOrder = <<>>
    /\ joined = [r \in RoomIds |-> {}]
    /\ accepted = 0
    /\ connected = {}
    /\ pending = EmptyBag
    /\ calls = [k \in RoomIds \X Users |-> [add |-> 0, remove |-> 0]]
    /\ lastBroadcast = [r \in RoomIds |-> <<>>]
    /\ events = 0
    /\ named = 0
    /\ failures = FALSE
    /\ ev = NoEv
    /\ hist = [fresh |-> TRUE, log |-> <<>>, disc |-> ""]

\* ------------------------------------------------------------- connection
\* io.on("connection", socket => ...): an event comes from an open connection,
\* or is the first event of the next connection the server accepts (a
\* connection that has sent nothing yet has no entry and no room, so its
\* `connection` is taken together with its first event).  One more event is
\* counted against the budget; no backend call settles in the same step.
Arrives(s) ==
    /\ events < MaxEvents
    /\ events' = events + 1
    /\ UNCHANGED failures
    /\ \/ /\ s \in connected
          /\ accepted' = accepted
       \/ /\ accepted < Len(SocketIds)
          /\ s = SocketIds[accepted + 1]
          /\ accepted' = accepted + 1

\* The userIds and roomIds an event may carry: those seen so far, the next
\* unseen name (it stands for every id not seen yet), and the empty id.
UserInputs ==
    {UserNames[i] : i \in 1..named}
        \cup (IF named < Len(UserNames) THEN {UserNames[named + 1]} ELSE {})
        \cup {""}

RoomInputs ==
    {roomOrder[i] : i \in 1..Len(roomOrder)}
        \cup (IF Len(roomOrder) < Len(RoomNames)
              THEN {RoomNames[Len(roomOrder) + 1]}
              ELSE {})
        \cup {""}

\* The ids of an event's payload are among those.
Offered(userId, roomId) == userId \in UserInputs /\ roomId \in RoomInputs

\* A valid join shows the server its userId: a new one takes the next name.
SeesUser(userId) ==
    named' = IF named < Len(UserNames) /\ userId = UserNames[named + 1]
             THEN named + 1
             ELSE named

\* ---------------------------------------------------------------- newUser
\* `if (!userId || !roomId) return;`
NewUserInvalid(s, userId, name, photo, roomId) ==
    /\ Arrives(s)
    /\ Offered(userId, roomId)
    /\ userId = "" \/ roomId = ""
    /\ ev' = [NoEv EXCEPT !.kind = "newUser", !.sock = s, !.room = roomId,
                          !.userId = userId, !.done = TRUE]
    /\ hist' = Broken
    /\ UNCHANGED named
    /\ connected' = connected \cup {s}
    /\ UNCHANGED <<onlineUsersByRoom, roomOrder, joined, pending, calls,
                   lastBroadcast>>

\* Case 1: the socket already has an entry in the room; overwrite it, then
\* socket.join(roomId) and the broadcast.
NewUserCase1(s, userId, name, photo, roomId) ==
    /\ Arrives(s)
    /\ Offered(userId, roomId)
    /\ userId # ""
    /\ roomId # ""
    /\ LET users == onlineUsersByRoom[roomId]
           idx == FindIndex(users, s)
           m == Member(s, userId, name, photo)
           reg == [onlineUsersByRoom EXCEPT ![roomId] = Case1Update(users, idx, m)]
           grp == [joined EXCEPT ![roomId] = @ \cup {s}]
           e == Emit(roomId, reg[roomId], grp, connected \cup {s})
       IN /\ idx # 0
          /\ onlineUsersByRoom' = reg
          /\ joined' = grp
          /\ lastBroadcast' = [lastBroadcast EXCEPT ![roomId] = <<e.list>>]
          /\ ev' = [NoEv EXCEPT !.kind = "newUser", !.sock = s, !.room = roomId,
                                !.userId = userId, !.name = name, !.photo = photo,
                                !.case = 1, !.emit = <<e>>, !.done = TRUE,
                                !.mutated = {roomId}, !.emitted = {roomId}]
    /\ hist' = HistJoin(s, userId, roomId)
    /\ SeesUser(userId)
    /\ connected' = connected \cup {s}
    /\ UNCHANGED <<roomOrder, pending, calls>>

\* Case 2: no entry for the socket and none for the userId; push the member,
\* start the add-participant request and suspend at the `await`.
NewUserCase2(s, userId, name, photo, roomId) ==
    /\ Arrives(s)
    /\ Offered(userId, roomId)
    /\ userId # ""
    /\ roomId # ""
    /\ LET users == onlineUsersByRoom[roomId]
           m == Member(s, userId, name, photo)
           k == [kind |-> "newUser", sock |-> s, room |-> roomId, rest |-> <<>>,
                 removed |-> 0, mutated |-> {roomId}, emitted |-> {}]
       IN /\ FindIndex(users, s) = 0
          /\ ~SomeUser(users, userId)
          /\ roomOrder' = IF RoomExists(roomOrder, roomId) THEN roomOrder
                          ELSE Append(roomOrder, roomId)
          /\ onlineUsersByRoom' = [onlineUsersByRoom EXCEPT ![roomId] = Case2Push(users, m)]
          /\ calls' = [calls EXCEPT ![<<roomId, userId>>].add = @ + 1]
          /\ pending' = pending (+) SetToBag({k})
          /\ ev' = [NoEv EXCEPT !.kind = "newUser", !.sock = s, !.room = roomId,
                                !.userId = userId, !.name = name, !.photo = photo,
                                !.case = 2,
                                !.call = <<Call("add", roomId, userId, name)>>,
                                !.mutated = {roomId}]
    /\ hist' = HistJoin(s, userId, roomId)
    /\ SeesUser(userId)
    /\ connected' = connected \cup {s}
    /\ UNCHANGED <<joined, lastBroadcast>>

\* Case 3: the userId has an entry under another socket; rewrite it, then
\* socket.join(roomId) and the broadcast.
NewUserCase3(s, userId, name, photo, roomId) ==
    /\ Arrives(s)
    /\ Offered(userId, roomId)
    /\ userId # ""
    /\ roomId # ""
    /\ LET users == onlineUsersByRoom[roomId]
           m == Member(s, userId, name, photo)
           reg == [onlineUsersByRoom EXCEPT ![roomId] = Case3Map(users, m)]
           grp == [joined EXCEPT ![roomId] = @ \cup {s}]
           e == Emit(roomId, reg[roomId], grp, connected \cup {s})
       IN /\ FindIndex(users, s) = 0
          /\ SomeUser(users, userId)
          /\ onlineUsersByRoom' = reg
          /\ joined' = grp
          /\ lastBroadcast' = [lastBroadcast EXCEPT ![roomId] = <<e.list>>]
          /\ ev' = [NoEv EXCEPT !.kind = "newUser", !.sock = s, !.room = roomId,
                                !.userId = userId, !.name = name, !.photo = photo,
                                !.case = 3, !.emit = <<e>>, !.done = TRUE,
                                !.mutated = {roomId}, !.emitted = {roomId}]
    /\ hist' = HistJoin(s, userId, roomId)
    /\ SeesUser(userId)
    /\ connected' = connected \cup {s}
    /\ UNCHANGED <<roomOrder, pending, calls>>

\* The add-participant request settles.  Resolved: socket.join(roomId) and
\* the broadcast of the room's current list.  Rejected: the `await` throws,
\* nothing catches it, and the rest of the handler is skipped.
ResumeNewUser(k, networkOk, responseOk) ==
    /\ BagIn(k, pending)
    /\ k.kind = "newUser"
    /\ failures' = (failures \/ post(networkOk, responseOk) = "throw")
    /\ pending' = pending (-) SetToBag({k})
    /\ IF post(networkOk, responseOk) = "throw"
       THEN /\ ev' = [NoEv EXCEPT !.kind = "newUser:resume", !.sock = k.sock,
                                  !.room = k.room, !.case = 2, !.failed = TRUE,
                                  !.raised = TRUE, !.done = TRUE,
                                  !.mutated = k.mutated]
            /\ UNCHANGED <<joined, lastBroadcast>>
       ELSE LET grp == [joined EXCEPT ![k.room] = @ \cup {k.sock}]
                e == Emit(k.room, onlineUsersByRoom[k.room], grp, connected)
            IN /\ joined' = grp
               /\ lastBroadcast' = [lastBroadcast EXCEPT ![k.room] = <<e.list>>]
               /\ ev' = [NoEv EXCEPT !.kind = "newUser:resume", !.sock = k.sock,
                                     !.room = k.room, !.case = 2, !.emit = <<e>>,
                                     !.done = TRUE, !.mutated = k.mutated,
                                     !.emitted = {k.room}]
    /\ UNCHANGED <<onlineUsersByRoom, roomOrder, accepted, connected, calls, events,
                   named, hist>>

NewUser(s, userId, name, photo, roomId) ==
    \/ NewUserInvalid(s, userId, name, photo, roomId)
    \/ NewUserCase1(s, userId, name, photo, roomId)
    \/ NewUserCase2(s, userId, name, photo, roomId)
    \/ NewUserCase3(s, userId, name, photo, roomId)

\* ------------------------------------------------------------- disconnect
\* Position in `rest` of the first room whose list holds the socket, 0 if none:
\* where `before !== onlineUsersByRoom[roomId].length` first holds in the loop.
FirstRoomWith(rest, reg, socketId) ==
    IF \E i \in 1..Len(rest) : FindIndex(reg[rest[i]], socketId) # 0
    THEN CHOOSE i \in 1..Len(rest) :
            /\ FindIndex(reg[rest[i]], socketId) # 0
            /\ \A j \in 1..(i - 1) : FindIndex(reg[rest[j]], socketId) = 0
    ELSE 0

\* `for (const roomId in onlineUsersByRoom)` over the rooms still to visit:
\* rooms without the socket are filtered to an equal list and passed; at the
\* first room that loses an entry the remove-participant request starts and
\* the handler suspends at the `await` with the remaining rooms unvisited.
\* e is the step record so far, base the suspended handlers other than this one.
DisconnectLoop(s, rest, e, base) ==
    LET i == FirstRoomWith(rest, onlineUsersByRoom, s)
    IN IF i = 0
       THEN /\ ev' = [e EXCEPT !.done = TRUE]
            /\ pending' = base
            /\ UNCHANGED <<onlineUsersByRoom, calls>>
       ELSE LET roomId == rest[i]
                before == onlineUsersByRoom[roomId]
                userToRemove == Find(before, s)[1]
                after == FilterOut(before, s)
                n == e.removed + (Len(before) - Len(after))
                k == [kind |-> "disconnect", sock |-> s, room |-> roomId,
                      rest |-> SubSeq(rest, i + 1, Len(rest)), removed |-> n,
                      mutated |-> e.mutated \cup {roomId}, emitted |-> e.emitted]
            IN /\ onlineUsersByRoom' = [onlineUsersByRoom EXCEPT ![roomId] = after]
               /\ calls' = [calls EXCEPT ![<<roomId, userToRemove.userId>>].remove = @ + 1]
               /\ pending' = base (+) SetToBag({k})
               /\ ev' = [e EXCEPT !.room = roomId, !.userId = userToRemove.userId,
                                  !.name = userToRemove.name,
                                  !.call = <<Call("remove", roomId, userToRemove.userId,
                                                  userToRemove.name)>>,
                                  !.removed = n, !.mutated = k.mutated]

\* The connection closes: Socket.io takes the socket out of its rooms, then
\* the handler scans the rooms in key order.
Disconnect(s) ==
    /\ Arrives(s)
    /\ connected' = connected \ {s}
    /\ joined' = [r \in RoomIds |-> joined[r] \ {s}]
    /\ DisconnectLoop(s, roomOrder, [NoEv EXCEPT !.kind = "disconnect", !.sock = s],
                      pending)
    /\ hist' = HistDisconnect(s)
    /\ UNCHANGED named
    /\ UNCHANGED <<roomOrder, lastBroadcast>>

\* The remove-participant request of a disconnect settles.  Resolved: the
\* room's current list is broadcast and the loop goes on.  Rejected: the
\* `await` throws out of the handler; no broadcast, no further room.
ResumeDisconnect(k, networkOk, responseOk) ==
    /\ BagIn(k, pending)
    /\ k.kind = "disconnect"
    /\ failures' = (failures \/ post(networkOk, responseOk) = "throw")
    /\ IF post(networkOk, responseOk) = "throw"
       THEN /\ pending' = pending (-) SetToBag({k})
            /\ ev' = [NoEv EXCEPT !.kind = "disconnect:resume", !.sock = k.sock,
                                  !.room = k.room, !.failed = TRUE, !.raised = TRUE,
                                  !.done = TRUE, !.removed = k.removed,
                                  !.mutated = k.mutated, !.emitted = k.emitted]
            /\ UNCHANGED <<onlineUsersByRoom, calls, lastBroadcast>>
       ELSE LET e == Emit(k.room, onlineUsersByRoom[k.room], joined, connected)
            IN /\ lastBroadcast' = [lastBroadcast EXCEPT ![k.room] = <<e.list>>]
               /\ DisconnectLoop(k.sock, k.rest,
                                 [NoEv EXCEPT !.kind = "disconnect:resume",
                                              !.sock = k.sock, !.room = k.room,
                                              !.emit = <<e>>, !.removed = k.removed,
                                              !.mutated = k.mutated,
                                              !.emitted = k.emitted \cup {k.room}],
                                 pending (-) SetToBag({k}))
    /\ UNCHANGED <<roomOrder, joined, accepted, connected, events, named, hist>>

\* ------------------------------------------------------------- leave-call
\* `if (!roomId) return;` and `if (!users) return;`
LeaveCallNoRoom(s, roomId) ==
    /\ Arrives(s)
    /\ roomId \in RoomInputs
    /\ roomId = "" \/ ~RoomExists(roomOrder, roomId)
    /\ ev' = [NoEv EXCEPT !.kind = "leave-call", !.sock = s, !.room = roomId,
                          !.done = TRUE]
    /\ hist' = Broken
    /\ UNCHANGED named
    /\ connected' = connected \cup {s}
    /\ UNCHANGED <<onlineUsersByRoom, roomOrder, joined, pending, calls,
                   lastBroadcast>>

\* The socket has an entry in the room: filter it out, start the
\* remove-participant request and suspend at the `await`.
LeaveCallFound(s, roomId) ==
    /\ Arrives(s)
    /\ roomId \in RoomInputs
    /\ roomId # ""
    /\ RoomExists(roomOrder, roomId)
    /\ Find(onlineUsersByRoom[roomId], s) # <<>>
    /\ LET users == onlineUsersByRoom[roomId]
           userToRemove == Find(users, s)[1]
           after == FilterOut(users, s)
           k == [kind |-> "leave-call", sock |-> s, room |-> roomId, rest |-> <<>>,
                 removed |-> Len(users) - Len(after), mutated |-> {roomId},
                 emitted |-> {}]
       IN /\ onlineUsersByRoom' = [onlineUsersByRoom EXCEPT ![roomId] = after]
          /\ calls' = [calls EXCEPT ![<<roomId, userToRemove.userId>>].remove = @ + 1]
          /\ pending' = pending (+) SetToBag({k})
          /\ ev' = [NoEv EXCEPT !.kind = "leave-call", !.sock = s, !.room = roomId,
                                !.userId = userToRemove.userId,
                                !.name = userToRemove.name,
                                !.call = <<Call("remove", roomId, userToRemove.userId,
                                                userToRemove.name)>>,
                                !.removed = k.removed, !.mutated = {roomId}]
    /\ hist' = Broken
    /\ UNCHANGED named
    /\ connected' = connected \cup {s}
    /\ UNCHANGED <<roomOrder, joined, lastBroadcast>>

\* The socket has no entry in the room: the filter keeps the list, then
\* socket.leave(roomId) and the broadcast.
LeaveCallNotFound(s, roomId) ==
    /\ Arrives(s)
    /\ roomId \in RoomInputs
    /\ roomId # ""
    /\ RoomExists(roomOrder, roomId)
    /\ Find(onlineUsersByRoom[roomId], s) = <<>>
    /\ LET reg == [onlineUsersByRoom EXCEPT ![roomId] = FilterOut(@, s)]
           grp == [joined EXCEPT ![roomId] = @ \ {s}]
           e == Emit(roomId, reg[roomId], grp, connected \cup {s})
       IN /\ onlineUsersByRoom' = reg
          /\ joined' = grp
          /\ lastBroadcast' = [lastBroadcast EXCEPT ![roomId] = <<e.list>>]
          /\ ev' = [NoEv EXCEPT !.kind = "leave-call", !.sock = s, !.room = roomId,
                                !.emit = <<e>>, !.done = TRUE, !.emitted = {roomId}]
    /\ hist' = Broken
    /\ UNCHANGED named
    /\ connected' = connected \cup {s}
    /\ UNCHANGED <<roomOrder, pending, calls>>

\* The remove-participant request of a leave settles.  Resolved:
\* socket.leave(roomId) and the broadcast.  Rejected: the `await` throws out
\* of the handler before either.
ResumeLeaveCall(k, networkOk, responseOk) ==
    /\ BagIn(k, pending)
    /\ k.kind = "leave-call"
    /\ failures' = (failures \/ post(networkOk, responseOk) = "throw")
    /\ pending' = pending (-) SetToBag({k})
    /\ IF post(networkOk, responseOk) = "throw"
       THEN /\ ev' = [NoEv EXCEPT !.kind = "leave-call:resume", !.sock = k.sock,
                                  !.room = k.room, !.failed = TRUE, !.raised = TRUE,
                                  !.done = TRUE, !.removed = k.removed,
                                  !.mutated = k.mutated]
            /\ UNCHANGED <<joined, lastBroadcast>>
       ELSE LET grp == [joined EXCEPT ![k.room] = @ \ {k.sock}]
                e == Emit(k.room, onlineUsersByRoom[k.room], grp, connected)
            IN /\ joined' = grp
               /\ lastBroadcast' = [lastBroadcast EXCEPT ![k.room] = <<e.list>>]
               /\ ev' = [NoEv EXCEPT !.kind = "leave-call:resume", !.sock = k.sock,
                                     !.room = k.room, !.emit = <<e>>, !.done = TRUE,
                                     !.removed = k.removed, !.mutated = k.mutated,
                                     !.emitted = {k.room}]
    /\ UNCHANGED <<onlineUsersByRoom, roomOrder, accepted, connected, calls, events,
                   named, hist>>

LeaveCall(s, roomId) ==
    \/ LeaveCallNoRoom(s, roomId)
    \/ LeaveCallFound(s, roomId)
    \/ LeaveCallNotFound(s, roomId)

\* ----------------------------------------------------------- chat:message
RECURSIVE TrimStart(_)
TrimStart(m) ==
    IF m = <<>> THEN m
    ELSE IF Head(m) = " " THEN TrimStart(Tail(m)) ELSE m

RECURSIVE TrimEnd(_)
TrimEnd(m) ==
    IF m = <<>> THEN m
    ELSE IF m[Len(m)] = " " THEN TrimEnd(SubSeq(m, 1, Len(m) - 1)) ELSE m

\* A slip of the relay: the message is not trimmed.
TrimForgotten(m) == m

\* payload?.message?.trim()
Trim(m) == TrimEnd(TrimStart(m))

\* The inbound message has no character other than blanks.
Blank(message) == \A i \in 1..Len(message) : message[i] = " "

\* A slip of the relay: an unresolved sender falls back to the first room.
SenderRoomFallsBack(order, reg, socketId) ==
    IF FirstRoomWith(order, reg, socketId) # 0
    THEN <<order[FirstRoomWith(order, reg, socketId)]>>
    ELSE IF order = <<>> THEN <<>> ELSE <<order[1]>>

\* The first room, in key order, whose list holds the socket: <<>> or <<roomId>>.
SenderRoom(order, reg, socketId) ==
    IF FirstRoomWith(order, reg, socketId) = 0 THEN <<>>
    ELSE <<order[FirstRoomWith(order, reg, socketId)]>>

\* The handler is synchronous: trim, look the sender up, relay to its room.
ChatMessage(s, userId, message, timestamp) ==
    /\ Arrives(s)
    /\ LET trimmedMessage == Trim(message)
           senderRoomId == SenderRoom(roomOrder, onlineUsersByRoom, s)
           sender == IF senderRoomId = <<>> THEN <<>>
                     ELSE Find(onlineUsersByRoom[senderRoomId[1]], s)
           outgoingMessage ==
               [userId |-> userId, message |-> trimmedMessage,
                timestamp |-> IF timestamp = "" THEN "now" ELSE timestamp,
                name |-> IF sender = <<>> THEN "null" ELSE sender[1].name,
                photo |-> IF sender = <<>> THEN "null" ELSE sender[1].photo]
       IN ev' = IF trimmedMessage = <<>> \/ senderRoomId = <<>>
                THEN [NoEv EXCEPT !.kind = "chat:message", !.sock = s, !.done = TRUE,
                                  !.blank = Blank(message)]
                ELSE [NoEv EXCEPT !.kind = "chat:message", !.sock = s,
                                  !.room = senderRoomId[1], !.done = TRUE,
                                  !.blank = Blank(message),
                                  !.chat = <<[room |-> senderRoomId[1],
                                              to |-> joined[senderRoomId[1]] \cap connected,
                                              message |-> outgoingMessage]>>]
    /\ hist' = Broken
    /\ UNCHANGED named
    /\ connected' = connected \cup {s}
    /\ UNCHANGED <<onlineUsersByRoom, roomOrder, joined, pending, calls,
                   lastBroadcast>>

\* ------------------------------------------------------------ specification
\* A backend call settles: resolved or rejected, in any order.
Settle ==
    \E k \in BagToSet(pending), networkOk \in BOOLEAN, responseOk \in BOOLEAN :
        \/ ResumeNewUser(k, networkOk, responseOk)
        \/ ResumeDisconnect(k, networkOk, responseOk)
        \/ ResumeLeaveCall(k, networkOk, responseOk)

Next ==
    \/ \E s \in Sockets, userId \in Users \cup {""}, name \in Names,
          photo \in Photos, roomId \in RoomIds \cup {""} :
            NewUser(s, userId, name, photo, roomId)
    \/ \E s \in Sockets : Disconnect(s)
    \/ \E s \in Sockets, roomId \in RoomIds \cup {""} :
            LeaveCall(s, roomId)
    \/ \E s \in Sockets, userId \in Users, message \in Messages,
          timestamp \in Timestamps :
            ChatMessage(s, userId, message, timestamp)
    \/ Settle

Spec == Init /\ [][Next]_vars

\* ================================================================== claims
ResumeKinds == {"newUser:resume", "disconnect:resume", "leave-call:resume"}

\* Indices of the entries of a list that carry the userId.
WithUser(users, userId) == {i \in 1..Len(users) : users[i].userId = userId}

\* Position of the latest join of the log for the same room and userId as entry n.
LatestJoin(log, n) ==
    CHOOSE m \in 1..Len(log) :
        /\ log[m].room = log[n].room
        /\ log[m].userId = log[n].userId
        /\ \A q \in (m + 1)..Len(log) :
              ~(log[q].room = log[n].room /\ log[q].userId = log[n].userId)

\* The joins of the log all name one room and one userId.
SharedJoins(log) ==
    \A n \in 1..Len(log) :
        log[n].room = log[1].room /\ log[n].userId = log[1].userId

\* C1: no room's member list holds two Members with the same userId.
C1_UserIdUniquePerRoom ==
    \A r \in RoomIds : \A i, j \in 1..Len(onlineUsersByRoom[r]) :
        i # j => onlineUsersByRoom[r][i].userId # onlineUsersByRoom[r][j].userId

\* C2: a socketId appears in at most one Member record of the whole
\* registry: never in two rooms, never twice in one room.
C2_ConnectionIdUniqueInRegistry ==
    \A r1, r2 \in RoomIds :
        \A i \in 1..Len(onlineUsersByRoom[r1]), j \in 1..Len(onlineUsersByRoom[r2]) :
            (r1 # r2 \/ i # j) =>
                onlineUsersByRoom[r1][i].socketId # onlineUsersByRoom[r2][j].socketId

\* C3: while the events so far are joins on fresh connections, every room and
\* userId joined has exactly one Member with that userId, and its socketId is
\* the socket of the most recent such join (last write wins on reconnect).
C3_LastWriteWinsOnReconnect ==
    (hist.fresh /\ hist.disc = "") =>
        \A n \in 1..Len(hist.log) :
            LET users == onlineUsersByRoom[hist.log[n].room]
                who == WithUser(users, hist.log[n].userId)
            IN /\ Cardinality(who) = 1
               /\ \A i \in who :
                     users[i].socketId = hist.log[LatestJoin(hist.log, n)].sock

\* Three joins of one userId to one room on three fresh connections have
\* happened, and the room has the single entry of the third.
C3_Witness ==
    /\ hist.fresh
    /\ hist.disc = ""
    /\ Len(hist.log) = 3
    /\ SharedJoins(hist.log)
    /\ Len(onlineUsersByRoom[hist.log[1].room]) = 1
    /\ onlineUsersByRoom[hist.log[1].room][1].socketId = hist.log[3].sock

\* C4: a join from a socket that already has an entry in the room keeps the
\* length of the list, overwrites that entry in place, leaves the other
\* entries alone, and starts no add-participant call.
C4_RepeatJoinOverwritesInPlace ==
    [][(/\ ev'.kind = "newUser"
        /\ ev'.case # 0
        /\ FindIndex(onlineUsersByRoom[ev'.room], ev'.sock) # 0)
       => LET before == onlineUsersByRoom[ev'.room]
              after == onlineUsersByRoom'[ev'.room]
              idx == FindIndex(before, ev'.sock)
          IN /\ Len(after) = Len(before)
             /\ after[idx] = Member(ev'.sock, ev'.userId, ev'.name, ev'.photo)
             /\ \A j \in 1..Len(before) : j # idx => after[j] = before[j]
             /\ ev'.call = <<>>
             /\ calls' = calls
             /\ pending' = pending]_vars

\* A socket has joined a room in which it already had an entry, after the
\* one add-participant call of its first join.
C4_Witness ==
    /\ ev.kind = "newUser"
    /\ ev.case = 1
    /\ FindIndex(onlineUsersByRoom[ev.room], ev.sock) # 0
    /\ \E k \in DOMAIN calls : calls[k].add = 1

\* C5: the handling of one disconnect removes at most one Member record over
\* all rooms, so at most one room reports a removal and at most one
\* remove-participant call is started.
C5_DisconnectRemovesAtMostOne ==
    ev.kind \in {"disconnect", "disconnect:resume"} =>
        ev.removed <= 1 /\ Cardinality(ev.mutated) <= 1

\* C6: when the add-participant call of a new-user join fails, the Member
\* stays in the registry, the socket is attached to the room and the room's
\* list is still broadcast.
C6_AddFailureKeepsJoinAndBroadcast ==
    (ev.kind = "newUser:resume" /\ ev.failed) =>
        /\ FindIndex(onlineUsersByRoom[ev.room], ev.sock) # 0
        /\ ev.sock \in joined[ev.room]
        /\ ev.emit # <<>>

\* C7: when the remove-participant call of a disconnect fails, the error is
\* not raised out of the handler and the updated list is still broadcast.
C7_RemoveFailureStillBroadcasts ==
    (ev.kind = "disconnect:resume" /\ ev.failed) =>
        /\ ~ev.raised
        /\ ev.emit # <<>>
        /\ ev.emit[1].list = onlineUsersByRoom[ev.room]

\* C8: a handler that changed a room's list has, when it ends, broadcast to
\* that room, and a broadcast carries the room's current list.
C8_BroadcastAfterMutation ==
    /\ ev.done => ev.mutated \subseteq ev.emitted
    /\ ev.emit # <<>> => ev.emit[1].list = onlineUsersByRoom[ev.emit[1].room]

\* C9: joins of one userId to one room on fresh connections followed by the
\* disconnect of the latest connection leave, once no handler is suspended,
\* exactly one add-participant and one remove-participant call for the room
\* and userId, and the room's last broadcast carries the empty list.
C9_ReconnectThenDisconnect ==
    (/\ hist.fresh
     /\ hist.disc # ""
     /\ hist.disc = hist.log[Len(hist.log)].sock
     /\ SharedJoins(hist.log)
     /\ BagCardinality(pending) = 0)
    => /\ calls[<<hist.log[1].room, hist.log[1].userId>>] = [add |-> 1, remove |-> 1]
       /\ lastBroadcast[hist.log[1].room] = << <<>> >>

\* C10: while a handler sits between its registry mutation and its
\* broadcast, no other event is handled.
C10_NoEventBetweenMutationAndBroadcast ==
    [][BagCardinality(pending) > 0 => ev'.kind \in ResumeKinds]_vars

\* The socket has an entry in the room's list.
HasEntry(roomId, socketId) ==
    \E i \in 1..Len(onlineUsersByRoom[roomId]) :
        onlineUsersByRoom[roomId][i].socketId = socketId

\* C11: the broadcast of a new-user join does not wait for the
\* add-participant call: it is out when the handler has started the call.
C11_BroadcastNotAwaited ==
    (ev.kind = "newUser" /\ ev.case = 2) => ev.emit # <<>>

C13_InvalidInputDropped ==
    [][/\ (ev'.kind = "newUser" /\ (ev'.userId = "" \/ ev'.room = ""))
          => /\ UNCHANGED <<onlineUsersByRoom, roomOrder, joined, pending, calls,
                            lastBroadcast>>
             /\ ev'.emit = <<>>
             /\ ev'.call = <<>>
             /\ ~ev'.raised
       /\ (ev'.kind = "chat:message" /\ ev'.blank)
          => /\ UNCHANGED <<onlineUsersByRoom, roomOrder, joined, pending, calls,
                            lastBroadcast>>
             /\ ev'.chat = <<>>]_vars

\* A member of a room has sent a blank message.
C13_Witness ==
    /\ ev.kind = "chat:message"
    /\ ev.blank
    /\ \E r \in RoomIds : HasEntry(r, ev.sock) /\ ev.sock \in joined[r]

\* C14: the disconnect of a connection that has no entry in any room changes
\* no list, starts no remove-participant call and broadcasts nothing.
C14_DisconnectWithoutEntryIsNoOp ==
    [][(ev'.kind = "disconnect" /\ \A r \in RoomIds : ~HasEntry(r, ev'.sock))
       => /\ UNCHANGED <<onlineUsersByRoom, roomOrder, pending, calls, lastBroadcast>>
          /\ ev'.emit = <<>>
          /\ ev'.call = <<>>
          /\ ev'.done
          /\ ~ev'.raised]_vars

\* A connection without an entry has disconnected while a room had members.
C14_Witness ==
    /\ ev.kind = "disconnect"
    /\ ev.done
    /\ ev.removed = 0
    /\ \E r \in RoomIds : Len(onlineUsersByRoom[r]) > 0

\* C15: when the handler of a leave that removed a Member has ended, the
\* socket is out of the room's group and the room's list has been broadcast,
\* whatever the outcome of the remove-participant call.
C15_LeaveDetachesAndBroadcasts ==
    (ev.kind = "leave-call:resume" /\ ev.done) =>
        /\ ev.sock \notin joined[ev.room]
        /\ ev.emit # <<>>
        /\ ev.emit[1].list = onlineUsersByRoom[ev.room]

\* C16: a disconnect or leave from a connection that has no entry in a room
\* (its user's entry now carries another connection) keeps that room's list
\* and starts no remove-participant call for that room.
C16_LateEventFromOldConnection ==
    [][ev'.kind \in {"disconnect", "disconnect:resume", "leave-call", "leave-call:resume"}
       => \A r \in RoomIds :
             ~HasEntry(r, ev'.sock)
                => /\ onlineUsersByRoom'[r] = onlineUsersByRoom[r]
                   /\ ev'.call = <<>> \/ ev'.call[1].room # r]_vars

\* A user joined on one connection, joined the same room again on a fresh
\* one, then the old connection disconnected: the entry carries the new one.
C16_Witness ==
    /\ hist.fresh
    /\ Len(hist.log) = 2
    /\ SharedJoins(hist.log)
    /\ hist.disc = hist.log[1].sock
    /\ ev.kind = "disconnect"
    /\ ev.removed = 0
    /\ Len(onlineUsersByRoom[hist.log[1].room]) = 1
    /\ onlineUsersByRoom[hist.log[1].room][1].socketId = hist.log[2].sock
    /\ onlineUsersByRoom[hist.log[1].room][1].userId = hist.log[1].userId

\* C17: a join or an explicit leave for room R (resumed parts included)
\* keeps the list and the broadcast group of every other room, broadcasts
\* only R's list to R's group and starts no backend call for another room.
C17_JoinAndLeaveScopedToOneRoom ==
    [][ev'.kind \in {"newUser", "newUser:resume", "leave-call", "leave-call:resume"}
       => /\ \A r \in RoomIds \ {ev'.room} :
                /\ onlineUsersByRoom'[r] = onlineUsersByRoom[r]
                /\ joined'[r] = joined[r]
                /\ lastBroadcast'[r] = lastBroadcast[r]
                /\ \A u \in Users : calls'[<<r, u>>] = calls[<<r, u>>]
          /\ ev'.emit # <<>>
                => /\ Len(ev'.emit) = 1
                   /\ ev'.emit[1].room = ev'.room
                   /\ ev'.emit[1].to \subseteq joined'[ev'.room]
          /\ ev'.call # <<>> => ev'.call[1].room = ev'.room]_vars

\* A join or leave has broadcast for one room while another room has a
\* member whose open connection is in that other room's group.
C17_Witness ==
    /\ ev.kind \in {"newUser", "leave-call"}
    /\ ev.emit # <<>>
    /\ \E r \in RoomIds \ {ev.room} :
          \E i \in 1..Len(onlineUsersByRoom[r]) :
             /\ onlineUsersByRoom[r][i].socketId \in joined[r] \cap connected
             /\ onlineUsersByRoom[r][i].socketId # ev.sock

\* C18 as stated: a leave that removes no Member changes no list, starts no
\* remove-participant call and broadcasts nothing.
C18_LeaveWithoutMemberHasNoEffect ==
    [][(/\ ev'.kind = "leave-call"
        /\ ev'.room # ""
        /\ RoomExists(roomOrder, ev'.room)
        /\ ~HasEntry(ev'.room, ev'.sock))
       => /\ onlineUsersByRoom' = onlineUsersByRoom
          /\ ev'.call = <<>>
          /\ ev'.emit = <<>>]_vars

\* C18 amended: a leave that removes no Member changes no list and starts no
\* remove-participant call; it still takes the connection out of the room's
\* group and broadcasts the unchanged list to the group's open connections.
C18_LeaveWithoutMemberStillBroadcasts ==
    [][(/\ ev'.kind = "leave-call"
        /\ ev'.room # ""
        /\ RoomExists(roomOrder, ev'.room)
        /\ ~HasEntry(ev'.room, ev'.sock))
       => /\ UNCHANGED <<onlineUsersByRoom, roomOrder, pending, calls>>
          /\ ev'.call = <<>>
          /\ ev'.done
          /\ joined' = [joined EXCEPT ![ev'.room] = @ \ {ev'.sock}]
          /\ ev'.emit = <<[room |-> ev'.room,
                           list |-> onlineUsersByRoom[ev'.room],
                           to |-> (joined[ev'.room] \ {ev'.sock}) \cap connected']>>
          /\ lastBroadcast'[ev'.room] = <<onlineUsersByRoom[ev'.room]>>]_vars

\* A connection without an entry has left a room that has a member whose
\* open connection received the unchanged list.
C18_Witness ==
    /\ ev.kind = "leave-call"
    /\ ev.done
    /\ ev.call = <<>>
    /\ ev.emit # <<>>
    /\ ~HasEntry(ev.room, ev.sock)
    /\ ev.emit[1].list # <<>>
    /\ ev.emit[1].to # {}

\* C19: whenever no handler is suspended on a backend call, every connection
\* with a Member record in a room's list is in that room's broadcast group.
C19_MembersAreInTheirGroup ==
    BagCardinality(pending) = 0
       => \A r \in RoomIds :
             \A i \in 1..Len(onlineUsersByRoom[r]) :
                onlineUsersByRoom[r][i].socketId \in joined[r]

\* The userIds with more add-participant than remove-participant calls
\* issued for a room: the backend's view of the room.
BackendView(roomId) ==
    {u \in Users : calls[<<roomId, u>>].add > calls[<<roomId, u>>].remove}

\* The userIds in a room's member list.
RegistryView(roomId) ==
    {onlineUsersByRoom[roomId][i].userId : i \in 1..Len(onlineUsersByRoom[roomId])}

\* C20: whenever no handler is suspended and every backend call so far has
\* succeeded, the backend's view of each room equals the userIds in its list.
C20_BackendViewMatchesRegistry ==
    (BagCardinality(pending) = 0 /\ ~failures)
       => \A r \in RoomIds : BackendView(r) = RegistryView(r)

====
